---- MODULE Spec2Model ----
(***************************************************************************)
(* eit-stream: the per-service EIT state machine (Service::clear), the     *)
(* initial build of the schedule tables from the EPG, the pacing loop of   *)
(* wrap() and the startup of main(), modelled from src/src/main.rs.        *)
(***************************************************************************)
EXTENDS Integers, Sequences, FiniteSets, TLC

VARIABLES
    phase,          \* "build" before the EIT tables are prepared, "run" after
    epg,            \* epg.channels: xmltv id -> the channel's events, in order
    eit_days,       \* instance.eit_days
    build_time,     \* current_time read by wrap() when it prepares the tables
    clock,          \* the value of the wall clock when it was last read
    service_list,   \* instance.service_list
    panicked,       \* TRUE once an unwrap/remove of the process has panicked
    pc,             \* position of wrap() in its main loop
    cycle,          \* number of completed iterations of the main loop
    eit_rate,       \* instance.eit_rate: <<>> is None, <<r>> is Some(r)
    tdt_tot,        \* instance.tdt_tot: <<>> is None, <<t>> is Some(t)
    eit_cc,         \* the continuity counter of PID 0x12
    ts_buffer,      \* the TS packets gathered in this cycle
    service_idx,    \* the service the present/following pass has reached
    schedule_skip,  \* the cursor of the schedule pass
    skip,           \* offset in bytes of the next block to send
    last_send,      \* length in bytes of the last slice given to send, -1: none
    eit_prev,       \* cc of the last PID 0x12 packet of earlier cycles, -1: none
    cursor0,        \* history: schedule_skip when the current cycle began
    schedule_log,   \* history: the services the schedule pass of the current
                    \* cycle has serialized, each with the buffer's bytes after
    passes_since,   \* history: per service, the cycles begun since its
                    \* schedule table was last serialized
    config,         \* the command line and what the files it names hold
    proc            \* the process: position of main(), output, exit status

buildvars == <<phase, epg, eit_days, build_time, config, proc>>

histvars == <<cursor0, schedule_log, passes_since>>

loopvars == <<pc, cycle, eit_rate, tdt_tot, eit_cc, ts_buffer, service_idx,
              schedule_skip, skip, last_send, eit_prev, histvars>>

vars == <<buildvars, clock, service_list, panicked, loopvars>>

----------------------------------------------------------------------------
(* Bounds of the model *)

MaxEvents == 3      \* events per XMLTV channel
MaxTime == 5        \* event boundaries lie in 0 .. MaxTime
MaxBuildTime == 1   \* wrap() prepares the tables at a time in 0 .. MaxBuildTime
MaxStep == 3        \* seconds the clock may advance between two reads
MaxDays == 2        \* eit-days lies in 1 .. MaxDays

SmallItem == 100    \* bytes of an EIT item with short texts
LargeItem == 2100   \* bytes of an EIT item with long texts
MaxServices == 2    \* services of the configuration
MaxCycles == 3      \* iterations of the main loop that are followed
MaxLoopClock == 4   \* the main loop is followed while the clock is <= this

(* Program constants *)

VersionMod == 32        \* (version + 1) % 32
RunningStatus == 4      \* event.status = 4
DaySeconds == 86400     \* chrono::Duration::days
PACKET_SIZE == 188      \* ts::PACKET_SIZE
BLOCK_SIZE == PACKET_SIZE * 7
EIT_PID == 18           \* psi::EIT_PID, 0x12
TDT_PID == 20           \* psi::TDT_PID, 0x14
TOT_PID == 20           \* psi::TOT_PID, 0x14
NULL_PID == 8191        \* the PID of ts::NULL_PACKET, 0x1FFF
CcMod == 16             \* the continuity counter has 4 bits

MaxClock == VersionMod + MaxTime

----------------------------------------------------------------------------
(* Data *)

Min(a, b) == IF a < b THEN a ELSE b

\* EitItem::from(&EpgEvent): the event's id and start, duration = stop - start,
\* running status undefined (0); size stands for the bytes its descriptors
\* take in a section.
EitItemFrom(event) ==
    [event_id |-> event.event_id,
     start    |-> event.start,
     duration |-> event.stop - event.start,
     status   |-> 0,
     size     |-> event.size]

\* Eit::default(): version 0, no items.
EitDefault == [version |-> 0, items |-> <<>>]

\* Service::default() with the xmltv-id of the configuration.
ServiceDefault(id) ==
    [xmltv_id |-> id, present |-> EitDefault, schedule |-> EitDefault]

\* The sequences of at most n spans <<start, stop>> on the time grid, sorted by
\* start, stop > start, adjacent but never overlapping.
RECURSIVE Spans(_, _, _)
Spans(grid, from, n) ==
    IF n = 0 THEN {<<>>}
    ELSE {<<>>} \cup
         UNION {{<<<<s, e>>>> \o r :
                    s \in {x \in grid : x >= from /\ x < e},
                    r \in Spans(grid, e, n - 1)} :
                e \in {x \in grid : x > from}}

\* A channel's events: spans numbered in order from 1.
EventsOf(spans) ==
    [i \in 1..Len(spans) |->
        [event_id |-> i, start |-> spans[i][1], stop |-> spans[i][2],
         size |-> SmallItem]]

\* A channel of back-to-back one-second events, long enough for the table
\* version to wrap.
LongChannel ==
    [i \in 1..(VersionMod + 2) |->
        [event_id |-> i, start |-> i - 1, stop |-> i, size |-> SmallItem]]

ShortChannels == {EventsOf(s) : s \in Spans(0..MaxTime, 0, MaxEvents)}

----------------------------------------------------------------------------
(* wrap(): Prepare EIT from EPG *)

\* The walk over epg_item.events: stop at the first event that starts after
\* last_time, enqueue the events that end after current_time.
EndsAtOrAfter(event, current_time) == event.stop >= current_time

\* `if event.stop > current_time`: the event is not over yet.
EndsAfter(event, current_time) == event.stop > current_time

\* `if event.start > last_time`: the event lies beyond the horizon.
BeyondHorizon(event, last_time) == event.start > last_time

RECURSIVE WalkEvents(_, _, _, _)
WalkEvents(events, i, current_time, last_time) ==
    IF i > Len(events) THEN <<>>
    ELSE IF BeyondHorizon(events[i], last_time) THEN <<>>
    ELSE IF EndsAfter(events[i], current_time)
         THEN <<EitItemFrom(events[i])>>
                  \o WalkEvents(events, i + 1, current_time, last_time)
         ELSE WalkEvents(events, i + 1, current_time, last_time)

LastTime(now, days) == now + days * DaySeconds

\* A service that is not in the XMLTV file takes the events of the file's
\* longest channel.
BuildServiceFallback(service, channels, current_time, last_time) ==
    LET longest == CHOOSE c \in DOMAIN channels :
                      \A d \in DOMAIN channels :
                          Len(channels[c]) >= Len(channels[d])
        id == IF service.xmltv_id \in DOMAIN channels
              THEN service.xmltv_id ELSE longest
    IN [service EXCEPT
          !.schedule.items =
              WalkEvents(channels[id], 1, current_time, last_time)]

\* One iteration of `for service in &mut instance.service_list`.
BuildService(service, channels, current_time, last_time) ==
    IF service.xmltv_id \notin DOMAIN channels
    THEN service
    ELSE [service EXCEPT
            !.schedule.items =
                WalkEvents(channels[service.xmltv_id], 1, current_time, last_time)]

----------------------------------------------------------------------------
(* Service::clear *)

NextVersionNoWrap(v) == v + 1

NextVersion(v) == (v + 1) % VersionMod

\* The first present item has ended at current_time.
Expired(service, current_time) ==
    /\ service.present.items # <<>>
    /\ ~ (Head(service.present.items).start
            + Head(service.present.items).duration > current_time)

\* schedule.items.remove(0) on an empty vector panics.
ClearPanics(service, current_time) ==
    Expired(service, current_time) /\ service.schedule.items = <<>>

\* present.items.remove(0); schedule.items.remove(0); both versions bumped.
AgeOutDropsPresentOnly(service) ==
    [service EXCEPT
        !.present = [version |-> NextVersion(service.present.version),
                     items   |-> Tail(service.present.items)],
        !.schedule = [service.schedule EXCEPT
                        !.version = NextVersion(service.schedule.version)]]

\* The age-out with schedule.items.pop() in the place of remove(0).
AgeOutDropsLast(service) ==
    [service EXCEPT
        !.present = [version |-> NextVersion(service.present.version),
                     items   |-> Tail(service.present.items)],
        !.schedule = [version |-> NextVersion(service.schedule.version),
                      items   |-> SubSeq(service.schedule.items, 1,
                                         Len(service.schedule.items) - 1)]]

AgeOut(service) ==
    [service EXCEPT
        !.present = [version |-> NextVersion(service.present.version),
                     items   |-> Tail(service.present.items)],
        !.schedule = [version |-> NextVersion(service.schedule.version),
                      items   |-> Tail(service.schedule.items)]]

\* The promotion with schedule.items.get(0) as the following event.
PromoteAttachesHead(service, current_time) ==
    IF service.present.items = <<>> /\ service.schedule.items = <<>>
    THEN service
    ELSE
      LET p2 == IF service.present.items = <<>>
                THEN <<service.schedule.items[1]>>
                ELSE service.present.items
      IN
      IF Head(p2).start > current_time
      THEN [service EXCEPT !.present.items = p2]
      ELSE
        LET p3 == IF Len(service.schedule.items) >= 2
                  THEN Append(p2, service.schedule.items[1])
                  ELSE p2
        IN [service EXCEPT
              !.present.items = [p3 EXCEPT ![1].status = RunningStatus]]

\* The promotion that moves the head of the schedule into present.
PromoteTakesFromSchedule(service, current_time) ==
    IF service.present.items = <<>> /\ service.schedule.items = <<>>
    THEN service
    ELSE
      LET p2 == IF service.present.items = <<>>
                THEN <<service.schedule.items[1]>>
                ELSE service.present.items
          s2 == IF service.present.items = <<>>
                THEN Tail(service.schedule.items)
                ELSE service.schedule.items
      IN
      IF Head(p2).start > current_time
      THEN [service EXCEPT !.present.items = p2, !.schedule.items = s2]
      ELSE
        LET p3 == IF Len(s2) >= 2 THEN Append(p2, s2[2]) ELSE p2
        IN [service EXCEPT
              !.present.items = [p3 EXCEPT ![1].status = RunningStatus],
              !.schedule.items = s2]

\* The promotion with present sharing its first item with the schedule: the
\* running mark shows in both.
PromoteMarksSchedule(service, current_time) ==
    IF service.present.items = <<>> /\ service.schedule.items = <<>>
    THEN service
    ELSE
      LET p2 == IF service.present.items = <<>>
                THEN <<service.schedule.items[1]>>
                ELSE service.present.items
      IN
      IF Head(p2).start > current_time
      THEN [service EXCEPT !.present.items = p2]
      ELSE
        LET p3 == IF Len(service.schedule.items) >= 2
                  THEN Append(p2, service.schedule.items[2])
                  ELSE p2
        IN [service EXCEPT
              !.present.items = [p3 EXCEPT ![1].status = RunningStatus],
              !.schedule.items[1].status = RunningStatus]

\* From `if self.present.items.is_empty()` to the end of clear(): promote the
\* head of the schedule, and once it has started attach the following event
\* and mark the first one running.
Promote(service, current_time) ==
    IF service.present.items = <<>> /\ service.schedule.items = <<>>
    THEN service
    ELSE
      LET p2 == IF service.present.items = <<>>
                THEN <<service.schedule.items[1]>>
                ELSE service.present.items
      IN
      IF Head(p2).start > current_time
      THEN [service EXCEPT !.present.items = p2]
      ELSE
        LET p3 == IF Len(service.schedule.items) >= 2
                  THEN Append(p2, service.schedule.items[2])
                  ELSE p2
        IN [service EXCEPT
              !.present.items = [p3 EXCEPT ![1].status = RunningStatus]]

ClearWithoutEarlyReturn(service, current_time) ==
    IF service.present.items = <<>>
    THEN Promote(service, current_time)
    ELSE IF Head(service.present.items).start
              + Head(service.present.items).duration > current_time
    THEN Promote(service, current_time)
    ELSE IF ClearPanics(service, current_time)
    THEN service
    ELSE Promote(AgeOut(service), current_time)

Clear(service, current_time) ==
    IF service.present.items = <<>>
    THEN Promote(service, current_time)
    ELSE IF Head(service.present.items).start
              + Head(service.present.items).duration > current_time
    THEN service
    ELSE IF ClearPanics(service, current_time)
    THEN service
    ELSE Promote(AgeOut(service), current_time)

----------------------------------------------------------------------------
(* Startup: the command line, the configuration and Output::open *)

MaxAddrLen == 3     \* an output address has at most this many tokens

\* An address is a sequence of tokens; "://" is the separator of splitn.
AddrTokens == {"udp", "file", "x", "://"}

\* The addresses of at most n tokens.
RECURSIVE Addresses(_)
Addresses(n) ==
    IF n = 0 THEN {<<>>}
    ELSE LET shorter == Addresses(n - 1)
         IN shorter \cup
            {Append(a, t) : a \in {b \in shorter : Len(b) = n - 1},
                            t \in AddrTokens}

\* Position of the first "://" of addr at or after i, 0 when there is none.
RECURSIVE FindSeparator(_, _)
FindSeparator(addr, i) ==
    IF i > Len(addr) THEN 0
    ELSE IF addr[i] = "://" THEN i
    ELSE FindSeparator(addr, i + 1)

\* addr.splitn(2, "://").collect(): one part when addr has no separator, else
\* the text before the first separator and all the text after it.
SplitN2(addr) ==
    LET k == FindSeparator(addr, 1) IN
    IF k = 0 THEN <<addr>>
    ELSE <<SubSeq(addr, 1, k - 1), SubSeq(addr, k + 1, Len(addr))>>

\* Output::open(addr): dst[1] is indexed in the "udp" and "file" arms only,
\* and indexing past the end of dst panics. io_ok tells whether the socket or
\* the file can be opened.
OutputOpen(addr, io_ok) ==
    LET dst == SplitN2(addr) IN
    IF dst[1] = <<"udp">>
    THEN IF Len(dst) < 2 THEN [kind |-> "panic", value |-> "index out of bounds"]
         ELSE IF io_ok THEN [kind |-> "Ok", value |-> "Udp"]
         ELSE [kind |-> "Err", value |-> "Io"]
    ELSE IF dst[1] = <<"file">>
    THEN IF Len(dst) < 2 THEN [kind |-> "panic", value |-> "index out of bounds"]
         ELSE IF io_ok THEN [kind |-> "Ok", value |-> "File"]
         ELSE [kind |-> "Err", value |-> "Io"]
    ELSE [kind |-> "Err", value |-> "UnknownOutput"]

\* The command lines and configurations: args is the first argument ("none":
\* there is none, "config": a path), file what Config::open and schema.check
\* make of the file, xmltv the top-level xmltv option and whether its file
\* loads, output the output option, multiplex the xmltv option of the
\* multiplex section ("absent": no such section), has_service whether the
\* multiplex holds a service with an xmltv-id and no xmltv option of its own.
Configs ==
    [args        : {"none", "-v", "-h", "-H", "config"},
     file        : {"unreadable", "invalid", "valid"},
     xmltv       : {"unset", "ok", "bad"},
     output      : {<<>>} \cup {<<a>> : a \in Addresses(MaxAddrLen)},
     multiplex   : {"absent", "unset", "ok", "bad"},
     has_service : BOOLEAN]

\* A configuration that starts.
ConfigDefault ==
    [args |-> "config", file |-> "valid", xmltv |-> "ok",
     output |-> <<(<<"udp", "://", "x">>)>>, multiplex |-> "unset",
     has_service |-> TRUE]

\* The process when main() is entered: nothing printed, Output::None, no exit
\* status yet (-1).
ProcStart ==
    [pc |-> "main", output |-> "None", error |-> "", stdout |-> 0,
     stderr |-> 0, exit_status |-> -1]

\* The process in the main loop of wrap().
ProcRunning == [ProcStart EXCEPT !.pc = "loop", !.output = "Udp"]

----------------------------------------------------------------------------
(* Specification of one service under arbitrary ticks *)

Init ==
    /\ phase = "run"
    /\ epg \in {[ch1 |-> c] : c \in ShortChannels \cup {LongChannel}}
    /\ eit_days = 1
    /\ build_time \in 0..MaxBuildTime
    /\ clock = build_time
    /\ service_list =
         <<BuildService(ServiceDefault("ch1"), epg, build_time,
                        LastTime(build_time, eit_days))>>
    /\ panicked = FALSE
    /\ pc = "start"
    /\ cycle = 0
    /\ eit_rate = <<>>
    /\ tdt_tot = <<>>
    /\ eit_cc = 0
    /\ ts_buffer = <<>>
    /\ service_idx = 0
    /\ schedule_skip = 0
    /\ skip = 0
    /\ last_send = -1
    /\ eit_prev = -1
    /\ cursor0 = 0
    /\ schedule_log = <<>>
    /\ passes_since = [i \in DOMAIN service_list |-> 0]
    /\ config = ConfigDefault
    /\ proc = ProcRunning

\* The clock is read and every service is refreshed.
Tick ==
    /\ phase = "run"
    /\ ~ panicked
    /\ \E d \in 0..MaxStep :
         /\ clock + d <= MaxClock
         /\ clock' = clock + d
    /\ panicked' = \E i \in DOMAIN service_list :
                        ClearPanics(service_list[i], clock')
    /\ service_list' =
         [i \in DOMAIN service_list |-> Clear(service_list[i], clock')]
    /\ UNCHANGED <<buildvars, loopvars>>

Next == Tick

Spec == Init /\ [][Next]_vars

----------------------------------------------------------------------------
(* Specification of the initial build *)

\* Event boundaries around the build times, and at and just past the horizon
\* of the latest build for each number of days.
BuildGrid ==
    (0..(MaxBuildTime + 1)) \cup
    {LastTime(MaxBuildTime, d) + j : d \in 1..MaxDays, j \in 0..1}

BuildChannels == {EventsOf(s) : s \in Spans(BuildGrid, 0, MaxEvents)}

InitBuild ==
    /\ phase = "build"
    /\ epg \in {[ch1 |-> c] : c \in BuildChannels}
    /\ eit_days \in 1..MaxDays
    /\ build_time = 0
    /\ clock = 0
    /\ service_list \in {<<ServiceDefault(id)>> : id \in {"ch1", "ch2"}}
    /\ panicked = FALSE
    /\ pc = "start"
    /\ cycle = 0
    /\ eit_rate = <<>>
    /\ tdt_tot = <<>>
    /\ eit_cc = 0
    /\ ts_buffer = <<>>
    /\ service_idx = 0
    /\ schedule_skip = 0
    /\ skip = 0
    /\ last_send = -1
    /\ eit_prev = -1
    /\ cursor0 = 0
    /\ schedule_log = <<>>
    /\ passes_since = [i \in DOMAIN service_list |-> 0]
    /\ config = ConfigDefault
    /\ proc = ProcRunning

\* wrap(), lines 551-590: read the clock, then fill every service's schedule.
Build ==
    /\ phase = "build"
    /\ \E now \in clock..MaxBuildTime :
         /\ clock' = now
         /\ build_time' = now
         /\ service_list' =
              [i \in DOMAIN service_list |->
                  BuildService(service_list[i], epg, now, LastTime(now, eit_days))]
    /\ phase' = "run"
    /\ UNCHANGED <<epg, eit_days, config, proc, panicked, loopvars>>

NextBuild == Build

SpecBuild == InitBuild /\ [][NextBuild]_vars

----------------------------------------------------------------------------
(* PSI sections and TS packets *)

EIT_OVERHEAD == 18          \* section header and CRC32 of an EIT section
MAX_SECTION_SIZE == 4096    \* 3 header bytes and 4093 bytes of payload
TS_PAYLOAD == 184           \* payload bytes of a 188-byte TS packet

\* A TS packet: its PID and continuity counter, the table and the service of
\* the section it carries, and the UTC time a TDT or TOT section carries (0 in
\* every other packet).
Packet(pid, cc, table_id, service) ==
    [pid |-> pid, cc |-> cc, table_id |-> table_id, service |-> service,
     time |-> 0]

NullPacket == Packet(NULL_PID, 0, 0, 0)

\* The sizes in bytes of the sections of a table: items fill a section until
\* the next one would pass the section limit; no items, no sections.
RECURSIVE SectionSizes(_, _, _)
SectionSizes(items, i, size) ==
    IF i > Len(items)
    THEN IF size = 0 THEN <<>> ELSE <<size>>
    ELSE IF size = 0
    THEN SectionSizes(items, i + 1, EIT_OVERHEAD + items[i].size)
    ELSE IF size + items[i].size > MAX_SECTION_SIZE
    THEN <<size>> \o SectionSizes(items, i + 1, EIT_OVERHEAD + items[i].size)
    ELSE SectionSizes(items, i + 1, size + items[i].size)

\* Eit::psi_list_assemble.
PsiListAssemble(eit) == SectionSizes(eit.items, 1, 0)

\* TS packets that carry a section of the given size, after a pointer field.
PacketsOf(size) == (size + 1 + TS_PAYLOAD - 1) \div TS_PAYLOAD

\* Psi::demux: n packets on pid stamped cc, cc + 1, ... (mod 16); leaves the
\* counter after the last one.
RECURSIVE PsiPackets(_, _, _, _, _)
PsiPackets(pid, cc, n, table_id, service) ==
    IF n = 0 THEN <<>>
    ELSE <<Packet(pid, cc, table_id, service)>>
            \o PsiPackets(pid, (cc + 1) % CcMod, n - 1, table_id, service)

BufferBytes(dst) == Len(dst) * PACKET_SIZE

FillNullTsNothing(dst) == dst

\* fill_null_ts
FillNullTs(dst) ==
    LET remain == BufferBytes(dst) % BLOCK_SIZE
        padding == (BLOCK_SIZE - remain) \div PACKET_SIZE
    IN IF remain = 0
       THEN dst
       ELSE dst \o [k \in 1..padding |-> NullPacket]

\* `for p in &mut psi_list`: every section goes out on PID 0x12 with the
\* counter left by the one before, and the buffer is padded after each.
RECURSIVE DemuxListNoWriteBack(_, _, _, _, _, _)
DemuxListNoWriteBack(dst, cc, sizes, i, table_id, service) ==
    IF i > Len(sizes)
    THEN [dst |-> dst, cc |-> cc]
    ELSE DemuxListNoWriteBack(
            FillNullTs(dst \o PsiPackets(EIT_PID, cc, PacketsOf(sizes[i]),
                                         table_id, service)),
            cc, sizes, i + 1, table_id, service)

RECURSIVE DemuxList(_, _, _, _, _, _)
DemuxList(dst, cc, sizes, i, table_id, service) ==
    IF i > Len(sizes)
    THEN [dst |-> dst, cc |-> cc]
    ELSE DemuxList(
            FillNullTs(dst \o PsiPackets(EIT_PID, cc, PacketsOf(sizes[i]),
                                         table_id, service)),
            (cc + PacketsOf(sizes[i])) % CcMod, sizes, i + 1, table_id, service)

PRESENT_TABLE == 78     \* 0x4E
SCHEDULE_TABLE == 80    \* 0x50
TDT_TABLE == 112        \* 0x70
TOT_TABLE == 115        \* 0x73

\* TdtTot::default()
TdtTotDefault == [cc |-> 0, tdt_time |-> 0, tot_time |-> 0]

\* TdtTot::update: both tables take the time of the system clock.
TdtTotUpdate(t, now) == [t EXCEPT !.tdt_time = now, !.tot_time = now]

\* The packets of a TDT or TOT section carry the section's time.
Stamp(packets, time) ==
    [k \in DOMAIN packets |-> [packets[k] EXCEPT !.time = time]]

\* TdtTot::demux without the call of update().
TdtTotDemuxNoUpdate(t, now, dst) ==
    [tdt_tot |-> [t EXCEPT !.cc = (t.cc + 2) % CcMod],
     dst     |-> dst \o Stamp(PsiPackets(TDT_PID, t.cc, 1, TDT_TABLE, 0),
                              t.tdt_time)
                     \o Stamp(PsiPackets(TOT_PID, (t.cc + 1) % CcMod, 1,
                                         TOT_TABLE, 0),
                              t.tot_time)]

\* TdtTot::demux: update(), then one TDT and one TOT packet on PID 0x14, on
\* the counter of the TDT/TOT state.
TdtTotDemux(t, now, dst) ==
    LET u == TdtTotUpdate(t, now) IN
    [tdt_tot |-> [u EXCEPT !.cc = (u.cc + 2) % CcMod],
     dst     |-> dst \o Stamp(PsiPackets(TDT_PID, u.cc, 1, TDT_TABLE, 0),
                              u.tdt_time)
                     \o Stamp(PsiPackets(TOT_PID, (u.cc + 1) % CcMod, 1,
                                         TOT_TABLE, 0),
                              u.tot_time)]

----------------------------------------------------------------------------
(* wrap(): the main loop *)

\* rate_limit in bytes: eit-rate, or 30 kbit/s per service.
RateLimit ==
    ((IF eit_rate = <<>> THEN Len(service_list) * 30 ELSE eit_rate[1]) * 1000)
        \div 8

\* The XMLTV file of the loop's configurations.
CycleEpg ==
    [ch1 |-> <<[event_id |-> 1, start |-> 0, stop |-> 2, size |-> SmallItem],
               [event_id |-> 2, start |-> 2, stop |-> 3, size |-> SmallItem],
               [event_id |-> 3, start |-> 3, stop |-> 5, size |-> SmallItem]>>,
     ch2 |-> <<[event_id |-> 1, start |-> 1, stop |-> 2, size |-> LargeItem],
               [event_id |-> 2, start |-> 3, stop |-> 4, size |-> LargeItem]>>,
     ch3 |-> <<>>]

\* The service lists of 0 .. n services, each with one of the xmltv ids.
RECURSIVE ServiceLists(_, _)
ServiceLists(ids, n) ==
    IF n = 0 THEN {<<>>}
    ELSE LET shorter == ServiceLists(ids, n - 1)
         IN shorter \cup
            {Append(l, ServiceDefault(id)) :
                l \in {s \in shorter : Len(s) = n - 1}, id \in ids}

InitCycle ==
    /\ phase = "run"
    /\ epg = CycleEpg
    /\ eit_days = 1
    /\ build_time = 0
    /\ clock = 0
    /\ \E l \in ServiceLists({"ch1", "ch2", "ch3", "none"}, MaxServices) :
         service_list =
            [i \in DOMAIN l |->
                BuildService(l[i], epg, build_time,
                             LastTime(build_time, eit_days))]
    /\ panicked = FALSE
    /\ pc = "start"
    /\ cycle = 0
    /\ eit_rate \in {<<>>, <<15>>}
    /\ tdt_tot \in {<<>>, <<TdtTotDefault>>}
    /\ eit_cc = 0
    /\ ts_buffer = <<>>
    /\ service_idx = 0
    /\ schedule_skip = 0
    /\ skip = 0
    /\ last_send = -1
    /\ eit_prev = -1
    /\ cursor0 = 0
    /\ schedule_log = <<>>
    /\ passes_since = [i \in DOMAIN service_list |-> 0]
    /\ config = ConfigDefault
    /\ proc = ProcRunning

\* A read of the wall clock: it never runs backwards.
ClockReads == {now \in clock..(clock + MaxStep) : now <= MaxLoopClock}

\* Lines 594-609: the pacing delay divides by rate_limit.
StartLoop ==
    /\ pc = "start"
    /\ phase = "run"
    /\ ~ panicked
    /\ IF RateLimit = 0
       THEN panicked' = TRUE /\ pc' = pc
       ELSE panicked' = FALSE /\ pc' = "tdt"
    /\ UNCHANGED <<buildvars, clock, service_list, cycle, eit_rate, tdt_tot,
                   eit_cc, ts_buffer, service_idx, schedule_skip, skip,
                   last_send, eit_prev, histvars>>

\* Lines 612-615: TDT and TOT, then padding.
TdtTotStep ==
    /\ pc = "tdt"
    /\ ~ panicked
    /\ cycle < MaxCycles
    /\ IF tdt_tot # <<>>
       THEN \E now \in ClockReads :
              LET r == TdtTotDemux(tdt_tot[1], now, ts_buffer) IN
              /\ clock' = now
              /\ tdt_tot' = <<r.tdt_tot>>
              /\ ts_buffer' = FillNullTs(r.dst)
       ELSE UNCHANGED <<clock, tdt_tot, ts_buffer>>
    /\ service_idx' = 1
    /\ cursor0' = schedule_skip
    /\ schedule_log' = <<>>
    /\ passes_since' = [i \in DOMAIN passes_since |-> passes_since[i] + 1]
    /\ pc' = IF Len(service_list) = 0 THEN "schedule" ELSE "present"
    /\ UNCHANGED <<buildvars, service_list, panicked, cycle, eit_rate, eit_cc,
                   schedule_skip, skip, last_send, eit_prev>>

\* Lines 617-633, one service: clear(), then its present/following table.
PresentStep ==
    /\ pc = "present"
    /\ ~ panicked
    /\ service_idx <= Len(service_list)
    /\ \E now \in ClockReads :
         LET old == service_list[service_idx]
             service == Clear(old, now)
             r == DemuxList(ts_buffer, eit_cc, PsiListAssemble(service.present),
                            1, PRESENT_TABLE, service_idx)
         IN /\ clock' = now
            /\ panicked' = ClearPanics(old, now)
            /\ service_list' = [service_list EXCEPT ![service_idx] = service]
            /\ ts_buffer' = r.dst
            /\ eit_cc' = r.cc
    /\ service_idx' = service_idx + 1
    /\ pc' = IF service_idx = Len(service_list) THEN "schedule" ELSE "present"
    /\ UNCHANGED <<buildvars, cycle, eit_rate, tdt_tot, schedule_skip, skip,
                   last_send, eit_prev, histvars>>

\* The schedule pass with a cursor that starts at 0 in every cycle.
ScheduleStepNoCursor ==
    /\ pc = "schedule"
    /\ ~ panicked
    /\ Len(schedule_log) < Len(service_list)
    /\ LET service == service_list[Len(schedule_log) + 1]
           r == DemuxList(ts_buffer, eit_cc, PsiListAssemble(service.schedule),
                          1, SCHEDULE_TABLE, Len(schedule_log) + 1)
       IN /\ schedule_skip' = Len(schedule_log) + 1
          /\ schedule_log' =
               Append(schedule_log, [service |-> Len(schedule_log) + 1,
                                     bytes   |-> BufferBytes(r.dst)])
          /\ passes_since' = [passes_since EXCEPT ![Len(schedule_log) + 1] = 0]
          /\ ts_buffer' = r.dst
          /\ eit_cc' = r.cc
          /\ pc' = IF BufferBytes(r.dst) >= RateLimit THEN "after" ELSE "schedule"
    /\ UNCHANGED <<buildvars, clock, service_list, panicked, cycle, eit_rate,
                   tdt_tot, service_idx, skip, last_send, eit_prev, cursor0>>

\* Lines 635-652, one iteration of the while loop.
ScheduleStep ==
    /\ pc = "schedule"
    /\ ~ panicked
    /\ schedule_skip < Len(service_list)
    /\ LET service == service_list[schedule_skip + 1]
           r == DemuxList(ts_buffer, eit_cc, PsiListAssemble(service.schedule),
                          1, SCHEDULE_TABLE, schedule_skip + 1)
       IN /\ schedule_skip' = schedule_skip + 1
          /\ schedule_log' =
               Append(schedule_log, [service |-> schedule_skip + 1,
                                     bytes   |-> BufferBytes(r.dst)])
          /\ passes_since' = [passes_since EXCEPT ![schedule_skip + 1] = 0]
          /\ ts_buffer' = r.dst
          /\ eit_cc' = r.cc
          /\ pc' = IF BufferBytes(r.dst) >= RateLimit THEN "after" ELSE "schedule"
    /\ UNCHANGED <<buildvars, clock, service_list, panicked, cycle, eit_rate,
                   tdt_tot, service_idx, skip, last_send, eit_prev, cursor0>>

\* The while loop also ends, before it serializes a service, when the buffer
\* already holds rate_limit bytes.
ScheduleEndWhenFull ==
    /\ pc = "schedule"
    /\ ~ panicked
    /\ \/ ~ (schedule_skip < Len(service_list))
       \/ BufferBytes(ts_buffer) >= RateLimit
    /\ pc' = "after"
    /\ UNCHANGED <<buildvars, clock, service_list, panicked, cycle, eit_rate,
                   tdt_tot, eit_cc, ts_buffer, service_idx, schedule_skip, skip,
                   last_send, eit_prev, histvars>>

\* The while loop ends at the end of the service list.
ScheduleEnd ==
    /\ pc = "schedule"
    /\ ~ panicked
    /\ ~ (schedule_skip < Len(service_list))
    /\ pc' = "after"
    /\ UNCHANGED <<buildvars, clock, service_list, panicked, cycle, eit_rate,
                   tdt_tot, eit_cc, ts_buffer, service_idx, schedule_skip, skip,
                   last_send, eit_prev, histvars>>

\* The cursor goes back to the first service after every pass.
AfterScheduleAlwaysWraps ==
    /\ pc = "after"
    /\ ~ panicked
    /\ schedule_skip' = 0
    /\ IF Len(ts_buffer) = 0
       THEN pc' = "tdt" /\ cycle' = cycle + 1
       ELSE pc' = "drain" /\ cycle' = cycle
    /\ skip' = 0
    /\ UNCHANGED <<buildvars, clock, service_list, panicked, eit_rate, tdt_tot,
                   eit_cc, ts_buffer, service_idx, last_send, eit_prev,
                   histvars>>

\* Lines 654-663: wrap the cursor; an empty buffer idles, any other is drained.
AfterSchedule ==
    /\ pc = "after"
    /\ ~ panicked
    /\ schedule_skip' =
         IF schedule_skip = Len(service_list) THEN 0 ELSE schedule_skip
    /\ IF Len(ts_buffer) = 0
       THEN pc' = "tdt" /\ cycle' = cycle + 1
       ELSE pc' = "drain" /\ cycle' = cycle
    /\ skip' = 0
    /\ UNCHANGED <<buildvars, clock, service_list, panicked, eit_rate, tdt_tot,
                   eit_cc, ts_buffer, service_idx, last_send, eit_prev,
                   histvars>>

\* cc of the last PID 0x12 packet of the buffer, or prev when it has none.
RECURSIVE LastEitCc(_, _, _)
LastEitCc(dst, i, prev) ==
    IF i = 0 THEN prev
    ELSE IF dst[i].pid = EIT_PID THEN dst[i].cc
    ELSE LastEitCc(dst, i - 1, prev)

\* Lines 664-677, one iteration: send a block; after the last one the buffer
\* is cleared and the next cycle begins.
SendBlock ==
    /\ pc = "drain"
    /\ ~ panicked
    /\ LET pkt_len == Min(BufferBytes(ts_buffer) - skip, BLOCK_SIZE)
           next == skip + pkt_len
       IN /\ last_send' = pkt_len
          /\ IF next < BufferBytes(ts_buffer)
             THEN /\ skip' = next
                  /\ UNCHANGED <<pc, cycle, ts_buffer, eit_prev>>
             ELSE /\ skip' = 0
                  /\ ts_buffer' = <<>>
                  /\ eit_prev' = LastEitCc(ts_buffer, Len(ts_buffer), eit_prev)
                  /\ pc' = "tdt"
                  /\ cycle' = cycle + 1
    /\ UNCHANGED <<buildvars, clock, service_list, panicked, eit_rate, tdt_tot,
                   eit_cc, service_idx, schedule_skip, histvars>>

NextCycle ==
    \/ StartLoop
    \/ TdtTotStep
    \/ PresentStep
    \/ ScheduleStep
    \/ ScheduleEnd
    \/ AfterSchedule
    \/ SendBlock

SpecCycle == InitCycle /\ [][NextCycle]_vars

----------------------------------------------------------------------------
(* Specification of startup: main() and wrap() up to the main loop *)

InitStartup ==
    /\ phase = "start"
    /\ epg = CycleEpg
    /\ eit_days = 1
    /\ build_time = 0
    /\ clock = 0
    /\ service_list = <<>>
    /\ panicked = FALSE
    /\ pc = "start"
    /\ cycle = 0
    /\ eit_rate = <<>>
    /\ tdt_tot = <<>>
    /\ eit_cc = 0
    /\ ts_buffer = <<>>
    /\ service_idx = 0
    /\ schedule_skip = 0
    /\ skip = 0
    /\ last_send = -1
    /\ eit_prev = -1
    /\ cursor0 = 0
    /\ schedule_log = <<>>
    /\ passes_since = [i \in DOMAIN service_list |-> 0]
    /\ config \in Configs
    /\ proc = ProcStart

\* wrap() returns Err(error) to main().
Fail(error) == [proc EXCEPT !.pc = "failed", !.error = error]

\* load_config(): version, usage or the schema text is printed and the
\* process exits with 0; else the file is opened and checked.
LoadConfig ==
    /\ phase = "start"
    /\ proc.pc = "main"
    /\ proc' =
         IF config.args # "config"
         THEN [proc EXCEPT !.pc = "exited", !.stdout = @ + 1,
                           !.exit_status = 0]
         ELSE IF config.file # "valid" THEN Fail("Config")
         ELSE [proc EXCEPT !.pc = "xmltv"]
    /\ UNCHANGED <<phase, epg, eit_days, build_time, config, clock,
                   service_list, panicked, loopvars>>

\* wrap(), line 535: the top-level xmltv option, when there is one, is loaded.
OpenXmltv ==
    /\ phase = "start"
    /\ proc.pc = "xmltv"
    /\ proc' = IF config.xmltv = "bad" THEN Fail("Epg")
               ELSE [proc EXCEPT !.pc = "output"]
    /\ UNCHANGED <<phase, epg, eit_days, build_time, config, clock,
                   service_list, panicked, loopvars>>

\* wrap(), lines 536-539: the output is opened. A panic ends the process
\* with its message on stderr and the exit status 101.
OpenOutput ==
    /\ phase = "start"
    /\ proc.pc = "output"
    /\ IF config.output = <<>>
       THEN proc' = Fail("MissingOutput") /\ panicked' = FALSE
       ELSE \E io_ok \in BOOLEAN :
              LET r == OutputOpen(config.output[1], io_ok) IN
              /\ panicked' = (r.kind = "panic")
              /\ proc' =
                   IF r.kind = "panic"
                   THEN [proc EXCEPT !.pc = "aborted", !.stderr = @ + 1,
                                     !.exit_status = 101]
                   ELSE IF r.kind = "Err" THEN Fail(r.value)
                   ELSE [proc EXCEPT !.pc = "sections", !.output = r.value]
    /\ UNCHANGED <<phase, epg, eit_days, build_time, config, clock,
                   service_list, loopvars>>

\* wrap(), lines 542-548 with Instance::parse_config: the xmltv option of the
\* multiplex is loaded, and a service with no xmltv file at any level is an
\* error. parse_tdt_tot returns Ok for every section.
ParseSections ==
    /\ phase = "start"
    /\ proc.pc = "sections"
    /\ proc' =
         IF config.multiplex = "bad" THEN Fail("Epg")
         ELSE IF /\ config.multiplex = "unset"
                 /\ config.has_service
                 /\ config.xmltv = "unset"
              THEN Fail("MissingXmltv")
         ELSE [proc EXCEPT !.pc = "loop"]
    /\ UNCHANGED <<phase, epg, eit_days, build_time, config, clock,
                   service_list, panicked, loopvars>>

\* main(): the error of wrap() is printed with println!, and main returns.
MainReturn ==
    /\ phase = "start"
    /\ proc.pc = "failed"
    /\ proc' = [proc EXCEPT !.pc = "exited", !.stdout = @ + 1,
                            !.exit_status = 0]
    /\ UNCHANGED <<phase, epg, eit_days, build_time, config, clock,
                   service_list, panicked, loopvars>>

NextStartup ==
    \/ LoadConfig
    \/ OpenXmltv
    \/ OpenOutput
    \/ ParseSections
    \/ MainReturn

SpecStartup == InitStartup /\ [][NextStartup]_vars

----------------------------------------------------------------------------
(* Properties of Service::clear *)

\* The schedule the service was built with.
BuiltItems(i) ==
    BuildService(ServiceDefault(service_list[i].xmltv_id), epg, build_time,
                 LastTime(build_time, eit_days)).schedule.items

\* C1: after every tick, for every service, present.items has length 0, 1
\* or 2.
C1_PresentLength ==
    \A i \in DOMAIN service_list :
        Len(service_list[i].present.items) \in {0, 1, 2}

\* A tick has left a current and a following event in present.
C1_Witness ==
    \E i \in DOMAIN service_list :
        /\ Len(service_list[i].present.items) = 2
        /\ service_list[i].present.version > 0

\* C2: after a tick at time clock, a first present item that is running
\* (start <= clock < start + duration) has status 4.
C2_RunningHasStatus4 ==
    \A i \in DOMAIN service_list :
        LET p == service_list[i].present.items IN
        (/\ p # <<>>
         /\ p[1].start <= clock
         /\ clock < p[1].start + p[1].duration) => p[1].status = RunningStatus

\* C3: when the earliest scheduled event starts after the build, present stays
\* empty at every tick before that start, and the event is in present only
\* from a tick at or after its start, and then with status 4.
C3_EmptyUntilStart ==
    \A i \in DOMAIN service_list :
        LET p == service_list[i].present.items
            built == BuiltItems(i)
        IN (built # <<>> /\ built[1].start > build_time) =>
             /\ clock < built[1].start => p = <<>>
             /\ (p # <<>> /\ p[1].event_id = built[1].event_id) =>
                    (built[1].start <= clock /\ p[1].status = RunningStatus)

\* The tick at time now ages out the current event of the service.
AgesOut(service, now) ==
    /\ Len(service.present.items) > 0
    /\ service.present.items[1].start + service.present.items[1].duration <= now

C4_VersionsStep ==
    \A i \in DOMAIN service_list :
        LET s == service_list[i]
            t == service_list'[i]
        IN IF AgesOut(s, clock')
           THEN /\ t.present.version = (s.present.version + 1) % 32
                /\ t.schedule.version = (s.schedule.version + 1) % 32
           ELSE /\ t.present.version = s.present.version
                /\ t.schedule.version = s.schedule.version

\* C4: present.version and schedule.version change only in a tick that ages
\* out the current event, where each goes from v to (v + 1) mod 32; every
\* other tick leaves both unchanged.
C4_Versions == [][C4_VersionsStep]_vars

\* Thirty-two events have aged out and the versions are back at 0.
C4_Witness ==
    \E i \in DOMAIN service_list :
        /\ Len(BuiltItems(i)) - Len(service_list[i].schedule.items) = VersionMod
        /\ service_list[i].present.version = 0
        /\ service_list[i].schedule.version = 0

\* C5: the tick is idempotent at a fixed clock value: from every reachable
\* service state and for every time now, a second clear at the same now
\* changes nothing.
C5_Idempotent ==
    \A i \in DOMAIN service_list :
        \A now \in clock..MaxClock :
            Clear(Clear(service_list[i], now), now) = Clear(service_list[i], now)

\* C6: present is a prefix mirror of schedule: present.items[k] is the same
\* event (event_id, start, duration) as schedule.items[k].
C6_PrefixMirror ==
    \A i \in DOMAIN service_list :
        LET p == service_list[i].present.items
            s == service_list[i].schedule.items
        IN /\ Len(p) <= Len(s)
           /\ \A k \in 1..Len(p) :
                /\ p[k].event_id = s[k].event_id
                /\ p[k].start = s[k].start
                /\ p[k].duration = s[k].duration

\* After an age-out, present holds a running event and its follower.
C6_Witness ==
    \E i \in DOMAIN service_list :
        /\ Len(service_list[i].present.items) = 2
        /\ service_list[i].present.items[1].status = RunningStatus
        /\ Len(service_list[i].schedule.items) < Len(BuiltItems(i))

\* C7: after a tick at time clock, a non-empty present starts with the
\* earliest event of the service that has not finished (start + duration >
\* clock).
C7_EarliestUnfinished ==
    \A i \in DOMAIN service_list :
        LET p == service_list[i].present.items
            built == BuiltItems(i)
        IN p # <<>> =>
             /\ p[1].start + p[1].duration > clock
             /\ \A k \in 1..Len(built) :
                    built[k].start + built[k].duration > clock
                        => p[1].start <= built[k].start

----------------------------------------------------------------------------
(* Properties of the initial build *)

\* The events of a channel that end after now and start no later than the
\* horizon, in order.
InWindow(events, now, last_time) ==
    SelectSeq(events, LAMBDA e : e.stop > now /\ e.start <= last_time)

\* C8: after the build at time now with last_time = now + eit_days * 86400,
\* the schedule of a service whose channel is sorted by start holds exactly,
\* in order, the events with stop > now and start <= last_time, and present
\* is empty.
C8_BuildWindow ==
    phase = "run" =>
        \A i \in DOMAIN service_list :
            LET id == service_list[i].xmltv_id
                window == InWindow(epg[id], build_time,
                                   build_time + eit_days * 86400)
                items == service_list[i].schedule.items
            IN id \in DOMAIN epg =>
                 /\ Len(items) = Len(window)
                 /\ \A k \in 1..Len(items) :
                        /\ items[k].event_id = window[k].event_id
                        /\ items[k].start = window[k].start
                        /\ items[k].duration = window[k].stop - window[k].start
                 /\ service_list[i].present.items = <<>>

\* A build that dropped a past event and an event beyond the horizon and
\* kept one in between.
C8_Witness ==
    /\ phase = "run"
    /\ \E i \in DOMAIN service_list :
         /\ service_list[i].xmltv_id \in DOMAIN epg
         /\ Len(service_list[i].schedule.items) = 1
         /\ \E e \in {epg.ch1[k] : k \in DOMAIN epg.ch1} : e.stop <= build_time
         /\ \E e \in {epg.ch1[k] : k \in DOMAIN epg.ch1} :
                e.start > build_time + eit_days * 86400

----------------------------------------------------------------------------
(* Properties of the main loop *)

\* C9: every call of send passes exactly 1316 bytes: the buffer holds a
\* positive multiple of 1316 bytes whenever it is drained, and no slice given
\* to send is empty or short.
C9_WholeBlocks ==
    /\ last_send \in {-1, 1316}
    /\ pc = "drain" =>
          /\ BufferBytes(ts_buffer) > 0
          /\ BufferBytes(ts_buffer) % 1316 = 0
          /\ skip % 1316 = 0
          /\ skip < BufferBytes(ts_buffer)

\* A second block of a buffer is about to be sent after a first of 1316 bytes.
C9_Witness ==
    /\ pc = "drain"
    /\ skip > 0
    /\ last_send = 1316
    /\ \E k \in DOMAIN ts_buffer : ts_buffer[k].pid = NULL_PID

\* From packet i on, every PID 0x12 packet of the buffer carries the counter
\* of the PID 0x12 packet before it plus 1 mod 16; prev is the counter of the
\* last one before packet i, -1 when there is none.
RECURSIVE ContinuousFrom(_, _, _)
ContinuousFrom(dst, i, prev) ==
    IF i > Len(dst) THEN TRUE
    ELSE IF dst[i].pid = 18
    THEN /\ prev # -1 => dst[i].cc = (prev + 1) % 16
         /\ ContinuousFrom(dst, i + 1, dst[i].cc)
    ELSE ContinuousFrom(dst, i + 1, prev)

\* A step moves the counter only where an EIT table is serialized, and the
\* packets it appends to the buffer continue the PID 0x12 packets of the
\* stream so far (of this buffer, or else of the earlier cycles).
C10_Step ==
    /\ eit_cc' # eit_cc => pc \in {"present", "schedule"}
    /\ Len(ts_buffer') >= Len(ts_buffer) =>
          /\ SubSeq(ts_buffer', 1, Len(ts_buffer)) = ts_buffer
          /\ ContinuousFrom(ts_buffer', Len(ts_buffer) + 1,
                            LastEitCc(ts_buffer, Len(ts_buffer), eit_prev))
    /\ Len(ts_buffer') < Len(ts_buffer) =>
          /\ ts_buffer' = <<>>
          /\ eit_prev' = LastEitCc(ts_buffer, Len(ts_buffer), eit_prev)

\* C10: one continuity counter runs through every EIT serialization: TDT/TOT
\* and padding never change it, and consecutive PID 0x12 packets differ by
\* exactly 1 mod 16 across the cycles.
C10_Continuity == [][C10_Step]_vars

\* The counter has wrapped from 15 to 0 inside a buffer that also holds
\* TDT/TOT and padding, in a later cycle.
C10_Witness ==
    /\ cycle > 0
    /\ eit_prev # -1
    /\ \E k \in DOMAIN ts_buffer : ts_buffer[k].pid = 20
    /\ \E k \in DOMAIN ts_buffer : ts_buffer[k].pid = NULL_PID
    /\ \E j, k \in DOMAIN ts_buffer :
         /\ j < k
         /\ ts_buffer[j].pid = 18 /\ ts_buffer[j].cc = 15
         /\ ts_buffer[k].pid = 18 /\ ts_buffer[k].cc = 0
         /\ ts_buffer[j].table_id # ts_buffer[k].table_id

----------------------------------------------------------------------------
(* The order of a cycle *)

\* The stage of a cycle a packet belongs to: 1 TDT/TOT, 2 present/following,
\* 3 schedule; 0 for padding.
Stage(p) ==
    IF p.pid = NULL_PID THEN 0
    ELSE IF p.pid = TDT_PID THEN 1
    ELSE IF p.table_id = PRESENT_TABLE THEN 2
    ELSE 3

\* Index of the last packet of dst[1..i] that is not padding, 0 if none.
RECURSIVE LastPsi(_, _)
LastPsi(dst, i) ==
    IF i = 0 THEN 0
    ELSE IF dst[i].pid # NULL_PID THEN i
    ELSE LastPsi(dst, i - 1)

\* q may come after p in a cycle.
Follows(p, q) ==
    \/ Stage(p) < Stage(q)
    \/ Stage(p) = Stage(q) /\ p.service <= q.service

\* C11: within a cycle the buffer is only appended to, every packet comes
\* after the packet before it in the order TDT/TOT, present/following tables
\* by service index, schedule tables by service index, the schedule tables are
\* those of services past the cursor the cycle began with, and the slices
\* given to send are consecutive slices of the buffer from its start.
C11_Step ==
    /\ \/ ts_buffer' = ts_buffer
       \/ ts_buffer' = <<>> /\ pc = "drain"
       \/ /\ Len(ts_buffer') > Len(ts_buffer)
          /\ SubSeq(ts_buffer', 1, Len(ts_buffer)) = ts_buffer
          /\ \A k \in (Len(ts_buffer) + 1)..Len(ts_buffer') :
                LET q == ts_buffer'[k]
                    j == LastPsi(ts_buffer', k - 1)
                IN Stage(q) # 0 =>
                     /\ Stage(q) = 3 => q.service > cursor0'
                     /\ j # 0 => Follows(ts_buffer'[j], q)
    /\ pc' = "drain" /\ pc # "drain" => skip' = 0
    /\ pc = "drain" =>
         /\ last_send' > 0
         /\ IF pc' = "drain"
            THEN skip' = skip + last_send'
            ELSE skip + last_send' = BufferBytes(ts_buffer)

C11_CycleOrder == [][C11_Step]_vars

C11_Witness ==
    /\ pc = "drain"
    /\ skip > 0
    /\ cursor0 = 1
    /\ \E h, i, j, k \in DOMAIN ts_buffer :
         /\ h < i /\ i < j /\ j < k
         /\ Stage(ts_buffer[h]) = 1
         /\ Stage(ts_buffer[i]) = 2 /\ ts_buffer[i].service = 1
         /\ Stage(ts_buffer[j]) = 2 /\ ts_buffer[j].service = 2
         /\ Stage(ts_buffer[k]) = 3 /\ ts_buffer[k].service = 2

----------------------------------------------------------------------------
(* The schedule pass *)

\* The pass of the current cycle so far: consecutive services from the cursor
\* the cycle began with, every one but the last left the buffer below
\* rate_limit, and a pass that has stopped has serialized a service that
\* filled the buffer or is the last of the list.
SchedulePass ==
    /\ Len(service_list) > 0 => cursor0 < Len(service_list)
    /\ \A i \in DOMAIN schedule_log :
         /\ schedule_log[i].service = cursor0 + i
         /\ schedule_log[i].service <= Len(service_list)
         /\ i < Len(schedule_log) => schedule_log[i].bytes < RateLimit
    /\ pc = "schedule" /\ schedule_log # <<>> =>
         schedule_log[Len(schedule_log)].bytes < RateLimit
    /\ pc \in {"after", "drain"} /\ Len(service_list) > 0 =>
         /\ schedule_log # <<>>
         /\ LET last == schedule_log[Len(schedule_log)] IN
            \/ last.bytes >= RateLimit
            \/ last.service = Len(service_list)

\* C12: the schedule pass serializes consecutive services from the cursor
\* and stops after the first that fills the buffer to rate_limit or after the
\* last service, and the next cycle's pass starts where this one stopped, at
\* the first service again after the last one.
C12_Step ==
    /\ SchedulePass'
    /\ schedule_log # <<>> /\ schedule_log' = <<>> =>
         cursor0' = schedule_log[Len(schedule_log)].service % Len(service_list)

C12_ScheduleCursor == [][C12_Step]_vars

C12_Witness ==
    /\ pc = "after"
    /\ cycle > 0
    /\ Len(service_list) = 2
    /\ cursor0 = 1
    /\ schedule_log # <<>>
    /\ schedule_log[1].service = 2

----------------------------------------------------------------------------
(* TDT and TOT *)

\* The positions of the packets of a table in the buffer.
PacketsOfTable(dst, table_id) ==
    {k \in DOMAIN dst : dst[k].pid # NULL_PID /\ dst[k].table_id = table_id}

\* C13: with TDT/TOT configured, the cycle begins with one TDT and one TOT
\* packet on PID 0x14 that carry the time read in that step and the two next
\* values of the TDT/TOT counter; the EIT counter is left alone by that step
\* and the TDT/TOT state by every other step, and the buffer holds exactly
\* that TDT and that TOT until the cycle is sent.
C13_Step ==
    /\ pc = "tdt" /\ tdt_tot # <<>> =>
         /\ Len(ts_buffer') >= 2
         /\ ts_buffer'[1] =
              [Packet(TDT_PID, tdt_tot[1].cc, TDT_TABLE, 0)
                 EXCEPT !.time = clock']
         /\ ts_buffer'[2] =
              [Packet(TOT_PID, (tdt_tot[1].cc + 1) % CcMod, TOT_TABLE, 0)
                 EXCEPT !.time = clock']
         /\ tdt_tot'[1].cc = (tdt_tot[1].cc + 2) % CcMod
         /\ eit_cc' = eit_cc
         /\ pc' # "tdt"
    /\ pc # "tdt" => tdt_tot' = tdt_tot
    /\ tdt_tot' # <<>> /\ pc' \in {"present", "schedule", "after", "drain"} =>
         /\ PacketsOfTable(ts_buffer', TDT_TABLE) = {1}
         /\ PacketsOfTable(ts_buffer', TOT_TABLE) = {2}
         /\ \A k \in DOMAIN ts_buffer' :
              ts_buffer'[k].pid = TDT_PID => k \in {1, 2}

C13_TdtTot == [][C13_Step]_vars

\* A later cycle in which no service has a table left to send.
C13_Witness ==
    /\ pc = "drain"
    /\ cycle > 0
    /\ Len(service_list) > 0
    /\ Len(ts_buffer) = 7
    /\ ts_buffer[1].table_id = TDT_TABLE /\ ts_buffer[1].time > 0
    /\ ts_buffer[2].table_id = TOT_TABLE
    /\ ts_buffer[2].cc = (2 * cycle + 1) % CcMod
    /\ eit_cc > 0

----------------------------------------------------------------------------
(* Services that are not in the XMLTV file *)

\* C14: a service whose xmltv_id is not in the XMLTV file lets the process
\* run on, has empty present and schedule tables, and has no packet in the
\* buffer.
C14_AbsentServiceIdle ==
    \A i \in DOMAIN service_list :
        service_list[i].xmltv_id \notin DOMAIN epg =>
            /\ ~ panicked
            /\ service_list[i].present.items = <<>>
            /\ service_list[i].schedule.items = <<>>
            /\ \A k \in DOMAIN ts_buffer :
                 ts_buffer[k].pid = EIT_PID => ts_buffer[k].service # i

\* A later cycle of such a service and another one, with TDT/TOT and both
\* tables of the other service in the buffer.
C14_Witness ==
    /\ pc = "drain"
    /\ cycle > 0
    /\ Len(service_list) = 2
    /\ service_list[1].xmltv_id \notin DOMAIN epg
    /\ service_list[2].xmltv_id \in DOMAIN epg
    /\ ts_buffer[1].pid = TDT_PID
    /\ \E j, k \in DOMAIN ts_buffer :
         /\ ts_buffer[j].table_id = PRESENT_TABLE /\ ts_buffer[j].service = 2
         /\ ts_buffer[k].table_id = SCHEDULE_TABLE /\ ts_buffer[k].service = 2

----------------------------------------------------------------------------
(* Startup failures, the rate window and Output::open *)

\* C15: a process whose startup failed has not entered the main loop, has
\* opened nothing to send to after the failure, and ends with a non-zero exit
\* status and a single line on stderr.
C15_StartupFailure ==
    proc.error # "" =>
        /\ proc.pc \in {"failed", "exited"}
        /\ pc = "start" /\ ts_buffer = <<>> /\ last_send = -1
        /\ proc.pc = "exited" =>
             /\ proc.exit_status # 0
             /\ proc.stderr = 1
             /\ proc.stdout = 0

\* C16: without eit-rate the rate window is positive and the pacing delay is
\* computed without a panic, for every number of services.
C16_RateWellDefined ==
    eit_rate = <<>> => RateLimit > 0 /\ ~ panicked

\* C17: Output::open never aborts the process; it gives a Udp sink only for
\* udp://..., a File sink only for file://..., and UnknownOutput for every
\* other address.
C17_OpenReturns ==
    /\ proc.pc # "aborted"
    /\ ~ panicked
    /\ config.output # <<>> =>
         LET dst == SplitN2(config.output[1]) IN
         /\ proc.output = "Udp" => Len(dst) = 2 /\ dst[1] = <<"udp">>
         /\ proc.output = "File" => Len(dst) = 2 /\ dst[1] = <<"file">>
         /\ proc.error = "UnknownOutput" =>
              ~ (Len(dst) = 2 /\ dst[1] \in {<<"udp">>, <<"file">>})
         /\ proc.error = "Io" =>
              Len(dst) = 2 /\ dst[1] \in {<<"udp">>, <<"file">>}

----------------------------------------------------------------------------
(* The paired removal and the following event *)

\* Two items are the same event.
SameEvent(a, b) ==
    /\ a.event_id = b.event_id
    /\ a.start = b.start
    /\ a.duration = b.duration

C18_Step ==
    \A i \in DOMAIN service_list :
        LET s == service_list[i]
            t == service_list'[i]
        IN IF AgesOut(s, clock')
           THEN /\ s.schedule.items # <<>>
                /\ SameEvent(s.present.items[1], s.schedule.items[1])
                /\ t.schedule.items = Tail(s.schedule.items)
                /\ \A k \in DOMAIN t.present.items :
                     ~ SameEvent(t.present.items[k], s.present.items[1])
                /\ Len(s.present.items) = 2 =>
                     /\ t.present.items # <<>>
                     /\ SameEvent(t.present.items[1], s.present.items[2])
           ELSE t.schedule.items = s.schedule.items

\* C18: a tick that finds present non-empty with its head ended removes that
\* one item from present and the first item from schedule, the same event;
\* the item behind it stays in present; every other tick leaves the items of
\* schedule as they are.
C18_PairedRemoval == [][C18_Step]_vars

\* Two events have aged out, one tick each.
C18_Witness ==
    \E i \in DOMAIN service_list :
        /\ Len(BuiltItems(i)) - Len(service_list[i].schedule.items) = 2
        /\ service_list[i].schedule.version = 2
        /\ service_list[i].schedule.items # <<>>
        /\ service_list[i].present.items # <<>>

\* C19: when the first present item is marked running, present has a second
\* item exactly when schedule has one, and that item is the second event of
\* the schedule with the status 0.
C19_Following ==
    \A i \in DOMAIN service_list :
        LET p == service_list[i].present.items
            s == service_list[i].schedule.items
        IN p # <<>> /\ p[1].status = RunningStatus =>
             /\ Len(p) = 2 <=> Len(s) >= 2
             /\ Len(p) = 2 => SameEvent(p[2], s[2]) /\ p[2].status = 0

\* After an age-out the last event of the schedule is running, with no event
\* to follow it.
C19_Witness ==
    \E i \in DOMAIN service_list :
        /\ Len(service_list[i].present.items) = 1
        /\ service_list[i].present.items[1].status = RunningStatus
        /\ Len(service_list[i].schedule.items) = 1
        /\ service_list[i].schedule.version > 0

\* C20: the schedule is never shorter than present, so the age-out finds an
\* item to remove from the schedule, and no tick panics.
C20_ScheduleCoversPresent ==
    /\ ~ panicked
    /\ \A i \in DOMAIN service_list :
         /\ Len(service_list[i].schedule.items)
              >= Len(service_list[i].present.items)
         /\ \A now \in clock..MaxClock : ~ ClearPanics(service_list[i], now)

\* Every event of a channel of two or more has aged out.
C20_Witness ==
    \E i \in DOMAIN service_list :
        /\ service_list[i].present.items = <<>>
        /\ service_list[i].schedule.items = <<>>
        /\ service_list[i].schedule.version >= 2
        /\ service_list[i].schedule.version = Len(BuiltItems(i))

----------------------------------------------------------------------------
(* What a tick changes *)

C21_Step ==
    \A i \in DOMAIN service_list :
        LET s == service_list[i]
            t == service_list'[i]
        IN t.present.items # s.present.items =>
             \/ t.present.version = NextVersion(s.present.version)
             \/ /\ s.present.items = <<>>
                /\ s.present.version = 0
                /\ s.schedule.items = BuiltItems(i)
                /\ t.present.version = s.present.version

\* C21: a tick that changes the items of present also steps present.version,
\* but for the tick that fills an empty present for the first time, from the
\* schedule as it was built.
C21_PresentChangeSteps == [][C21_Step]_vars

\* An event has aged out and the next one waits in present for its start.
C21_Witness ==
    \E i \in DOMAIN service_list :
        /\ service_list[i].present.version = 1
        /\ Len(service_list[i].present.items) = 1
        /\ service_list[i].present.items[1].status = 0
        /\ service_list[i].present.items[1].start > clock

----------------------------------------------------------------------------
(* Every service gets its turn *)

\* C22: with services configured, a cycle begins with the cursor at a service
\* of the list, its schedule pass serializes one service at least, and after
\* the pass no service has gone without its schedule table for as many cycles
\* as there are services.
C22_EveryServiceServed ==
    Len(service_list) > 0 =>
        /\ pc = "tdt" => schedule_skip \in 0..(Len(service_list) - 1)
        /\ pc \in {"present", "schedule", "after", "drain"} =>
             cursor0 \in 0..(Len(service_list) - 1)
        /\ pc \in {"after", "drain"} \/ (pc = "tdt" /\ cycle > 0) =>
             /\ schedule_log # <<>>
             /\ \A i \in DOMAIN service_list :
                  passes_since[i] < Len(service_list)

\* The TDT/TOT and present packets alone fill the rate window, and the pass
\* still serializes a service, the second of the list, resumed from the pass
\* before.
C22_Witness ==
    /\ pc = "after"
    /\ Len(service_list) = 2
    /\ passes_since = <<1, 0>>
    /\ \E k \in DOMAIN ts_buffer :
         /\ Stage(ts_buffer[k]) = 3
         /\ (k - 1) * PACKET_SIZE >= RateLimit
         /\ \A j \in 1..(k - 1) : Stage(ts_buffer[j]) # 3

----------------------------------------------------------------------------
(* The items of the schedule *)

\* C23: the items of schedule are the last items of the schedule as it was
\* built, every field as built: a tick removes items from its head and writes
\* to none, also not the running status of the event that is on air.
C23_ScheduleItemsAsBuilt ==
    \A i \in DOMAIN service_list :
        LET s == service_list[i].schedule.items
            b == BuiltItems(i)
            removed == Len(b) - Len(s)
        IN /\ removed >= 0
           /\ \A k \in DOMAIN s : s[k] = b[k + removed]

\* An event is marked running in present while its schedule item, the head
\* of the schedule after an age-out, has the status it was built with.
C23_Witness ==
    \E i \in DOMAIN service_list :
        /\ service_list[i].present.items # <<>>
        /\ service_list[i].present.items[1].status = RunningStatus
        /\ service_list[i].present.items[1].start <= clock
        /\ SameEvent(service_list[i].present.items[1],
                     service_list[i].schedule.items[1])
        /\ service_list[i].schedule.items[1].status = 0
        /\ service_list[i].schedule.version = 1

====
